---- MODULE Spec2Model ----
(***************************************************************************)
(* A model of compute_contour (src/keplers_goat_herd.py): the contour      *)
(* integration solver of Kepler's equation E - e sin E = ell.              *)
(*                                                                         *)
(* Numbers.  A double is modelled in fixed point: the integer v stands     *)
(* for the real v / Scale.  Sums and differences are exact, products and   *)
(* quotients round to the nearest unit (ties away from zero), and the      *)
(* elementary functions are evaluated by range reduction and a truncated   *)
(* power series.  A value that a division may have made non-finite is an   *)
(* extended number <<c, v>>: c = 0 finite with value v, c = 1 +inf,        *)
(* c = -1 -inf, c = 2 NaN, with the IEEE-754 rules numpy follows.          *)
(***************************************************************************)
EXTENDS Integers, Sequences, FiniteSets, TLC

\* ------------------------------------------------------------------------
\* Bounds of the model
\* ------------------------------------------------------------------------

\* longest mean-anomaly array
MaxLen == 2

\* largest N_it
MaxNit == 4

\* ------------------------------------------------------------------------
\* Fixed-point arithmetic
\* ------------------------------------------------------------------------

\* units per 1.0
Scale == 1024

\* np.pi
Pi == 3217

\* 2.*np.pi
TwoPi == 2 * Pi

\* 0.5
Half == Scale \div 2

Abs(a) == IF a < 0 THEN -a ELSE a

Sgn(a) == IF a < 0 THEN -1 ELSE IF a > 0 THEN 1 ELSE 0

\* Below, an operator that uses an operand more than once takes its value
\* through a one-element set, {e(t) : t \in {x}}: the operand is evaluated
\* once, as an argument of a python function is.

\* a / b rounded to the nearest integer, ties away from zero (b # 0)
RDiv(a, b) ==
    CHOOSE q \in {Sgn(x) * Sgn(y) * ((2 * Abs(x) + Abs(y)) \div (2 * Abs(y))) :
                      x \in {a}, y \in {b}} : TRUE

\* the product of two fixed-point numbers
Mul(a, b) == RDiv(a * b, Scale)

\* the quotient of two fixed-point numbers (b # 0)
Div(a, b) == RDiv(a * Scale, b)

\* sin on [0, pi/2]: x - x^3/3! + x^5/5! - x^7/7! + x^9/9!, in Horner form
SinSeries(x) ==
    CHOOSE v \in {LET x2 == Mul(t, t)
                      t4 == Scale - RDiv(x2, 72)
                      t3 == Scale - RDiv(Mul(x2, t4), 42)
                      t2 == Scale - RDiv(Mul(x2, t3), 20)
                      t1 == Scale - RDiv(Mul(x2, t2), 6)
                  IN  Mul(t, t1) : t \in {x}} : TRUE

\* cos on [0, pi/2]: 1 - x^2/2! + x^4/4! - x^6/6! + x^8/8!, in Horner form
CosSeries(x) ==
    CHOOSE v \in {LET x2 == Mul(t, t)
                      t4 == Scale - RDiv(x2, 56)
                      t3 == Scale - RDiv(Mul(x2, t4), 30)
                      t2 == Scale - RDiv(Mul(x2, t3), 12)
                  IN  Scale - RDiv(Mul(x2, t2), 2) : t \in {x}} : TRUE

\* the argument brought into [0, 2 pi)
Reduce(x) == x % TwoPi

\* np.sin / da.sin
Sin(x) ==
    CHOOSE v \in {LET s == IF y > Pi THEN -1 ELSE 1
                      z == IF y > Pi THEN y - Pi ELSE y
                      w == IF 2 * z > Pi THEN Pi - z ELSE z
                  IN  Sgn(t) * s * SinSeries(w) : t \in {x}, y \in {Reduce(Abs(x))}} : TRUE

\* np.cos / da.cos
Cos(x) ==
    CHOOSE v \in {LET s == IF y > Pi THEN -1 ELSE 1
                      z == IF y > Pi THEN y - Pi ELSE y
                  IN  IF 2 * z > Pi THEN -s * CosSeries(Pi - z)
                      ELSE s * CosSeries(z) : y \in {Reduce(Abs(x))}} : TRUE

\* da.sinh, for the small arguments radius*exp2I: x + x^3/3! + x^5/5! + x^7/7!
Sinh(x) ==
    CHOOSE v \in {LET x2 == Mul(t, t)
                      t3 == Scale + RDiv(x2, 42)
                      t2 == Scale + RDiv(Mul(x2, t3), 20)
                      t1 == Scale + RDiv(Mul(x2, t2), 6)
                  IN  Mul(t, t1) : t \in {x}} : TRUE

\* da.cosh, for the small arguments radius*exp2I: 1 + x^2/2! + x^4/4! + x^6/6!
Cosh(x) ==
    CHOOSE v \in {LET x2 == Mul(t, t)
                      t3 == Scale + RDiv(x2, 30)
                      t2 == Scale + RDiv(Mul(x2, t3), 12)
                  IN  Scale + RDiv(Mul(x2, t2), 2) : t \in {x}} : TRUE

\* ------------------------------------------------------------------------
\* Extended numbers: the results of numpy's true division and what is
\* computed from them
\* ------------------------------------------------------------------------

Fin(v) == <<0, v>>

PInf == <<1, 0>>

NInf == <<-1, 0>>

NaN == <<2, 0>>

IsFin(x) == x[1] = 0

IsNaN(x) == x[1] = 2

\* the sign of an extended number that is not NaN (zero counts as +0)
XSign(x) == IF IsFin(x) THEN (IF x[2] < 0 THEN -1 ELSE 1) ELSE x[1]

XInf(s) == IF s < 0 THEN NInf ELSE PInf

\* x + y
XAdd(x, y) ==
    CHOOSE v \in {
        IF IsNaN(p) \/ IsNaN(q) THEN NaN
        ELSE IF IsFin(p) /\ IsFin(q) THEN Fin(p[2] + q[2])
        ELSE IF IsFin(p) THEN q
        ELSE IF IsFin(q) THEN p
        ELSE IF p[1] = q[1] THEN p ELSE NaN
        : p \in {x}, q \in {y}} : TRUE

\* x * y
XMul(x, y) ==
    CHOOSE v \in {
        IF IsNaN(p) \/ IsNaN(q) THEN NaN
        ELSE IF IsFin(p) /\ IsFin(q) THEN Fin(Mul(p[2], q[2]))
        ELSE IF (IsFin(p) /\ p[2] = 0) \/ (IsFin(q) /\ q[2] = 0) THEN NaN
        ELSE XInf(XSign(p) * XSign(q))
        : p \in {x}, q \in {y}} : TRUE

\* x / y: a zero divisor gives +-inf, or NaN for 0/0, and never an error
XDiv(x, y) ==
    CHOOSE v \in {
        IF IsNaN(p) \/ IsNaN(q) THEN NaN
        ELSE IF IsFin(p) /\ IsFin(q) THEN
            IF q[2] # 0 THEN Fin(Div(p[2], q[2]))
            ELSE IF p[2] = 0 THEN NaN ELSE XInf(Sgn(p[2]))
        ELSE IF IsFin(p) THEN Fin(0)
        ELSE IF IsFin(q) THEN XInf(XSign(p) * XSign(q))
        ELSE NaN
        : p \in {x}, q \in {y}} : TRUE

\* ------------------------------------------------------------------------
\* compute_contour: the checks and the array expressions, as operators on
\* sequences (a 1-d array is a sequence, a 2-d array a sequence of rows
\* indexed by the sample j)
\* ------------------------------------------------------------------------

Idx(a) == 1..Len(a)

\* the array whose elements the function f on 1..n gives, every element
\* evaluated once
Array(f) == f \o <<>>

\* an array of finite doubles as extended numbers
Extended(a) == Array([i \in Idx(a) |-> Fin(a[i])])

\* the values of an array of finite extended numbers
Finite(a) == Array([i \in Idx(a) |-> a[i][2]])

\* da.max of a non-empty array
ArrayMax(a) == CHOOSE m \in {a[i] : i \in Idx(a)} : \A i \in Idx(a) : a[i] <= m

\* da.min of a non-empty array
ArrayMin(a) == CHOOSE m \in {a[i] : i \in Idx(a)} : \A i \in Idx(a) : m <= a[i]

Ok == "ok"

EccLowMsg == "Eccentricity must be greater than zero!"

EccHighMsg == "Eccentricity must be less than unity!"

RangeMsg == "Mean anomaly should be in the range (0, 2 pi)"

SamplingMsg == "Need at least two sampling points!"

\* the ValueError of the reduction itself: an empty array has no maximum
ZeroSizeMsg == "zero-size array to reduction operation maximum which has no identity"

\* a bug: the closed ends of the eccentricity range are let through
EccentricityErrorClosed(e) ==
    IF e < 0 THEN EccLowMsg ELSE IF e > Scale THEN EccHighMsg ELSE Ok

\* the two eccentricity checks
EccentricityError(e) ==
    IF e <= 0 THEN EccLowMsg ELSE IF e >= Scale THEN EccHighMsg ELSE Ok

\* a bug: only the first element is compared with the ends of the range
RangeErrorFirst(ell) ==
    IF Len(ell) = 0 THEN ZeroSizeMsg
    ELSE IF ell[1] > TwoPi THEN RangeMsg
    ELSE IF ell[1] < 0 THEN RangeMsg
    ELSE Ok

\* the two checks of the array's extrema
RangeError(ell) ==
    IF Len(ell) = 0 THEN ZeroSizeMsg
    ELSE IF ArrayMax(ell) > TwoPi THEN RangeMsg
    ELSE IF ArrayMin(ell) < 0 THEN RangeMsg
    ELSE Ok

\* the check of N_it
SamplingError(n) == IF n < 2 THEN SamplingMsg ELSE Ok

\* the checks in the order of the code: the message of the first that
\* fails, or Ok
CheckInputs(ell, e, n) ==
    IF EccentricityError(e) # Ok THEN EccentricityError(e)
    ELSE IF RangeError(ell) # Ok THEN RangeError(ell)
    ELSE SamplingError(n)

N_pointsOf(n) == n - 2

\* a bug: one sampling interval too many
N_fftOff(n) == n * 2

N_fftOf(n) == (n - 1) * 2

RadiusOf(e) == RDiv(e, 2)

\* da.arange(N_points)
J_arrOf(n) == Array([k \in 1..N_pointsOf(n) |-> k - 1])

\* (2*np.pi*(j_arr+1.)/N_fft)
FreqOf(n) ==
    LET j_arr == J_arrOf(n)
    IN  Array([k \in Idx(j_arr) |-> RDiv(TwoPi * (j_arr[k] + 1), N_fftOf(n))])

\* da.cos(freq)
Exp2ROf(freq) == Array([k \in Idx(freq) |-> Cos(freq[k])])

\* da.sin(freq)
Exp2IOf(freq) == Array([k \in Idx(freq) |-> Sin(freq[k])])

\* eccentricity*da.cos(radius*exp2R)
EcosROf(e, r, exp2R) == Array([k \in Idx(exp2R) |-> Mul(e, Cos(Mul(r, exp2R[k])))])

\* eccentricity*da.sin(radius*exp2R)
EsinROf(e, r, exp2R) == Array([k \in Idx(exp2R) |-> Mul(e, Sin(Mul(r, exp2R[k])))])

\* exp2R*exp2R-exp2I*exp2I
Exp4ROf(exp2R, exp2I) ==
    Array([k \in Idx(exp2R) |-> Mul(exp2R[k], exp2R[k]) - Mul(exp2I[k], exp2I[k])])

\* 2.*exp2R*exp2I
Exp4IOf(exp2R, exp2I) ==
    Array([k \in Idx(exp2R) |-> Mul(Mul(2 * Scale, exp2R[k]), exp2I[k])])

\* da.cosh(radius*exp2I)
CoshIOf(r, exp2I) == Array([k \in Idx(exp2I) |-> Cosh(Mul(r, exp2I[k]))])

\* da.sinh(radius*exp2I)
SinhIOf(r, exp2I) == Array([k \in Idx(exp2I) |-> Sinh(Mul(r, exp2I[k]))])

EsinRadiusOf(e) == Mul(e, Sin(RadiusOf(e)))

EcosRadiusOf(e) == Mul(e, Cos(RadiusOf(e)))

\* ell_array-eccentricity/2.
MinusHalfEcc(ell, e) == Array([i \in Idx(ell) |-> ell[i] - RDiv(e, 2)])

\* a bug: the element pi takes the branch of the elements below pi
WhereBelowPiClosed(ell, c, e) ==
    Array([i \in Idx(ell) |-> IF ell[i] <= Pi THEN c[i] + e ELSE c[i]])

\* a bug: the branch of every element is taken from the first element
WhereBelowPiFirst(ell, c, e) ==
    Array([i \in Idx(ell) |-> IF ell[1] < Pi THEN c[i] + e ELSE c[i]])

\* da.where(ell_array<np.pi, center+eccentricity, center)
WhereBelowPi(ell, c, e) ==
    Array([i \in Idx(ell) |-> IF ell[i] < Pi THEN c[i] + e ELSE c[i]])

SinOf(c) == Array([i \in Idx(c) |-> Sin(c[i])])

CosOf(c) == Array([i \in Idx(c) |-> Cos(c[i])])

\* the per-call sample arrays, one entry per interior sample j = 1..N_points
SamplesOf(e, n) ==
    LET r == RadiusOf(e)
        exp2R == Exp2ROf(FreqOf(n))
        exp2I == Exp2IOf(FreqOf(n))
    IN  [exp2R |-> exp2R, exp2I |-> exp2I,
         ecosR |-> EcosROf(e, r, exp2R), esinR |-> EsinROf(e, r, exp2R),
         exp4R |-> Exp4ROf(exp2R, exp2I), exp4I |-> Exp4IOf(exp2R, exp2I),
         coshI |-> CoshIOf(r, exp2I), sinhI |-> SinhIOf(r, exp2I)]

\* j = 0: f at center + radius
RightFx(ell, c, sinC, cosC, r, ecosRadius, esinRadius) ==
    Array([i \in Idx(ell) |->
        LET zR == c[i] + r
            tmpsin == Mul(sinC[i], ecosRadius) + Mul(cosC[i], esinRadius)
        IN  zR - tmpsin - ell[i]])

\* j = N_it: f at center - radius
LeftFx(ell, c, sinC, cosC, r, ecosRadius, esinRadius) ==
    Array([i \in Idx(ell) |->
        LET zR == c[i] - r
            tmpsin == Mul(sinC[i], ecosRadius) - Mul(cosC[i], esinRadius)
        IN  zR - tmpsin - ell[i]])

\* w/fxR for an edge, w = 0.5 or -0.5
EdgeTerm(w, fx) == Array([i \in Idx(fx) |-> XDiv(Fin(w), Fin(fx[i]))])

\* a bug: the left edge enters gx1 with the sign of the right edge
LeftGx1TermPlus(fx) == EdgeTerm(Half, fx)

\* -0.5/fxR
LeftGx1Term(fx) == EdgeTerm(-Half, fx)

\* the real part of f at the interior samples
InteriorFxR(ell, c, sinC, cosC, r, s) ==
    Array([k \in Idx(s.exp2R) |->
        Array([i \in Idx(ell) |->
            LET zR == c[i] + Mul(r, s.exp2R[k])
                tmpsin == Mul(sinC[i], s.ecosR[k]) + Mul(cosC[i], s.esinR[k])
            IN  zR - Mul(tmpsin, s.coshI[k]) - ell[i]])])

\* the imaginary part of f at the interior samples
InteriorFxI(sinC, cosC, r, s) ==
    Array([k \in Idx(s.exp2I) |->
        Array([i \in Idx(sinC) |->
            LET zI == Mul(r, s.exp2I[k])
                tmpcos == Mul(cosC[i], s.ecosR[k]) - Mul(sinC[i], s.esinR[k])
            IN  zI - Mul(tmpcos, s.sinhI[k])])])

\* fxR*fxR+fxI*fxI
FtmpOf(fxR, fxI) ==
    Array([k \in Idx(fxR) |->
        Array([i \in Idx(fxR[k]) |-> Mul(fxR[k][i], fxR[k][i]) + Mul(fxI[k][i], fxI[k][i])])])

\* fx /= ftmp
DividedBy(fx, ftmp) ==
    Array([k \in Idx(fx) |->
        Array([i \in Idx(fx[k]) |-> XDiv(Fin(fx[k][i]), Fin(ftmp[k][i]))])])

\* wR*fxR+wI*fxI, the weights broadcast along the elements
Weighted(wR, wI, fxR, fxI) ==
    Array([k \in Idx(fxR) |->
        Array([i \in Idx(fxR[k]) |->
            XAdd(XMul(Fin(wR[k]), fxR[k][i]), XMul(Fin(wI[k]), fxI[k][i]))])])

RECURSIVE SumRows(_, _, _)
\* the sum of column i over the first k rows
SumRows(m, i, k) == IF k = 0 THEN Fin(0) ELSE XAdd(SumRows(m, i, k - 1), m[k][i])

\* np.sum(m, axis=0), len the number of columns
SumAxis0(m, len) ==
    CHOOSE v \in {Array([i \in 1..len |-> SumRows(rows, i, Len(rows))]) : rows \in {m}} : TRUE

\* a += b
Added(a, b) == Array([i \in Idx(a) |-> XAdd(a[i], b[i])])

\* a bug: the last element of the result is dropped
OutputOfShort(c, r, gx2, gx1) ==
    Array([i \in 1..(Len(c) - 1) |-> XAdd(c[i], XDiv(XMul(Fin(r), gx2[i]), gx1[i]))])

\* output + radius*ft_gx2/ft_gx1, output holding the centers
OutputOf(c, r, gx2, gx1) ==
    Array([i \in Idx(c) |-> XAdd(c[i], XDiv(XMul(Fin(r), gx2[i]), gx1[i]))])

\* ------------------------------------------------------------------------
\* One call of compute_contour, statement block by statement block
\*
\* Arrays are objects: heap[id] is the content of the array id, and a
\* variable of the function holds an id (0 while unbound).  An expression
\* makes a new array.  An augmented assignment (+=, /=) writes into the
\* array its target names when the arrays are numpy's (inplace), and binds
\* the target to a new array when they are dask's.
\* ------------------------------------------------------------------------

VARIABLES
    pc,            \* the block the call is at; "returned" or "raised" at its end
    inplace,       \* TRUE: numpy arrays, FALSE: dask arrays
    heap,          \* the arrays, by id
    ell_array,     \* the id of the caller's array
    eccentricity,
    N_it,
    loc,           \* the local variables of the call
    written,       \* the ids of the arrays an augmented assignment wrote into
    samples,       \* the contour samples j added to the accumulators so far
    result,        \* the error raised or the id returned
    ell_before,    \* the content of the caller's array when the call began
    ppc,           \* the driver of the partitioned solve: its position
    full,          \* the array the driver partitions
    cuts,          \* the places where the driver cuts the array
    whole,         \* the outcome of the call on the whole array
    parts          \* the outcomes of the calls on the chunks, in order

vars ==
    <<pc, inplace, heap, ell_array, eccentricity, N_it, loc, written, samples,
      result, ell_before, ppc, full, cuts, whole, parts>>

driverVars == <<ppc, full, cuts, whole, parts>>

\* the mean anomalies of the model: below the range, its lower end, a value
\* below pi, pi, a value above pi, the upper end of the range, above it
EllValues == {-1, 0, Scale, Pi, 5 * Scale, TwoPi, TwoPi + 1}

\* the eccentricities of the model: below the range, its two ends, two
\* values inside
EccValues == {-Half, 0, Half, (3 * Scale) \div 4, Scale}

NitValues == 1..MaxNit

RECURSIVE SeqsUpTo(_, _)
\* the sequences over S of length at most n
SeqsUpTo(S, n) ==
    IF n = 0 THEN {<<>>}
    ELSE LET shorter == SeqsUpTo(S, n - 1)
             longest == {t \in shorter : Len(t) = n - 1}
         IN  shorter \cup {Append(t, x) : t \in longest, x \in S}

Arrays == SeqsUpTo(EllValues, MaxLen)

LocInit ==
    [N_points |-> 0, N_fft |-> 0, radius |-> 0, freq |-> <<>>,
     exp2R |-> 0, exp2I |-> 0, ecosR |-> 0, esinR |-> 0,
     exp4R |-> 0, exp4I |-> 0, coshI |-> 0, sinhI |-> 0,
     esinRadius |-> 0, ecosRadius |-> 0,
     center |-> 0, sinC |-> <<>>, cosC |-> <<>>, output |-> 0,
     fxR |-> 0, fxI |-> 0, ft_gx2 |-> 0, ft_gx1 |-> 0]

NoResult == [kind |-> "none", msg |-> Ok, ref |-> 0]

\* the ids of the per-call sample arrays
SampleIds ==
    {loc.exp2R, loc.exp2I, loc.exp4R, loc.exp4I,
     loc.ecosR, loc.esinR, loc.coshI, loc.sinhI} \ {0}

\* the per-call sample arrays as the call holds them
SamplesHeld ==
    [exp2R |-> heap[loc.exp2R], exp2I |-> heap[loc.exp2I],
     ecosR |-> heap[loc.ecosR], esinR |-> heap[loc.esinR],
     exp4R |-> heap[loc.exp4R], exp4I |-> heap[loc.exp4I],
     coshI |-> heap[loc.coshI], sinhI |-> heap[loc.sinhI]]

\* the state when compute_contour is entered
CallInit ==
    /\ pc = "check"
    /\ inplace \in BOOLEAN
    /\ \E a \in Arrays : heap = <<a>> /\ ell_before = a
    /\ ell_array = 1
    /\ eccentricity \in EccValues
    /\ N_it \in NitValues
    /\ loc = LocInit
    /\ written = {}
    /\ samples = <<>>
    /\ result = NoResult

DriverIdle ==
    /\ ppc = "idle"
    /\ full = <<>>
    /\ cuts = {}
    /\ whole = NoResult
    /\ parts = <<>>

Init == CallInit /\ DriverIdle

\* the id a new array gets
NewId(h) == Len(h) + 1

\* a bug: the difference is stored into the operand (ell_array -= ...)
HalfShiftedInPlace(h, a, e) ==
    [heap |-> [h EXCEPT ![a] = MinusHalfEcc(h[a], e)], ref |-> a]

\* center = ell_array-eccentricity/2.: a new array
HalfShifted(h, a, e) ==
    [heap |-> Append(h, MinusHalfEcc(h[a], e)), ref |-> NewId(h)]

\* target op= ...: the heap and the target's binding after it
Augmented(h, target, content) ==
    IF inplace
    THEN [heap |-> [h EXCEPT ![target] = content], ref |-> target]
    ELSE [heap |-> Append(h, content), ref |-> NewId(h)]

WrittenBy(target) == IF inplace THEN {target} ELSE {}

\* the checks: raise the first error, or go on
Check ==
    /\ pc = "check"
    /\ LET err == CheckInputs(heap[ell_array], eccentricity, N_it)
       IN  IF err # Ok
           THEN /\ pc' = "raised"
                /\ result' = [kind |-> "raise", msg |-> err, ref |-> 0]
           ELSE /\ pc' = "sampling"
                /\ UNCHANGED result
    /\ UNCHANGED <<inplace, heap, ell_array, eccentricity, N_it, loc, written,
                   samples, ell_before>>
    /\ UNCHANGED driverVars

\* the sampling points, the radius and the precomputed arrays
Sampling ==
    /\ pc = "sampling"
    /\ \E s \in {SamplesOf(eccentricity, N_it)} :
           /\ heap' = heap \o <<s.exp2R, s.exp2I, s.ecosR, s.esinR,
                                 s.exp4R, s.exp4I, s.coshI, s.sinhI>>
           /\ loc' = [loc EXCEPT !.N_points = N_pointsOf(N_it),
                                 !.N_fft = N_fftOf(N_it),
                                 !.radius = RadiusOf(eccentricity),
                                 !.freq = FreqOf(N_it),
                                 !.exp2R = Len(heap) + 1, !.exp2I = Len(heap) + 2,
                                 !.ecosR = Len(heap) + 3, !.esinR = Len(heap) + 4,
                                 !.exp4R = Len(heap) + 5, !.exp4I = Len(heap) + 6,
                                 !.coshI = Len(heap) + 7, !.sinhI = Len(heap) + 8,
                                 !.esinRadius = EsinRadiusOf(eccentricity),
                                 !.ecosRadius = EcosRadiusOf(eccentricity)]
    /\ pc' = "center"
    /\ UNCHANGED <<inplace, ell_array, eccentricity, N_it, written, samples,
                   result, ell_before>>
    /\ UNCHANGED driverVars

\* the contour centers; output names the array of the centers
Center ==
    /\ pc = "center"
    /\ \E first \in {HalfShifted(heap, ell_array, eccentricity)} :
       \E c \in {WhereBelowPi(first.heap[ell_array], first.heap[first.ref],
                              eccentricity)} :
           /\ heap' = Append(first.heap, Extended(c))
           /\ loc' = [loc EXCEPT !.center = Len(first.heap) + 1,
                                 !.sinC = SinOf(c), !.cosC = CosOf(c),
                                 !.output = Len(first.heap) + 1]
    /\ pc' = "right"
    /\ UNCHANGED <<inplace, ell_array, eccentricity, N_it, written, samples,
                   result, ell_before>>
    /\ UNCHANGED driverVars

\* j = 0: the right edge starts the two accumulators
RightEdge ==
    /\ pc = "right"
    /\ \E fxR \in {RightFx(heap[ell_array], Finite(heap[loc.center]), loc.sinC, loc.cosC,
                           loc.radius, loc.ecosRadius, loc.esinRadius)} :
           /\ heap' = heap \o <<fxR, EdgeTerm(Half, fxR), EdgeTerm(Half, fxR)>>
           /\ loc' = [loc EXCEPT !.fxR = Len(heap) + 1, !.ft_gx2 = Len(heap) + 2,
                                 !.ft_gx1 = Len(heap) + 3]
    /\ samples' = Append(samples, 0)
    /\ pc' = "interior"
    /\ UNCHANGED <<inplace, ell_array, eccentricity, N_it, written, result, ell_before>>
    /\ UNCHANGED driverVars

\* fxR = ...; fxI = ...: f at the interior samples, two new arrays
InteriorFx(h) ==
    Append(Append(h, InteriorFxR(h[ell_array], Finite(h[loc.center]), loc.sinC, loc.cosC,
                                 loc.radius, SamplesHeld)),
           InteriorFxI(loc.sinC, loc.cosC, loc.radius, SamplesHeld))

\* j = 1 to N_points: f on the arc, inverted, and its weighted sums added
\* to the accumulators
Interior ==
    /\ pc = "interior"
    /\ \E h1 \in {InteriorFx(heap)} :
       \E ftmp \in {FtmpOf(h1[Len(heap) + 1], h1[Len(heap) + 2])} :
       \E a1 \in {Augmented(h1, Len(heap) + 1, DividedBy(h1[Len(heap) + 1], ftmp))} :
       \E a2 \in {Augmented(a1.heap, Len(heap) + 2,
                            DividedBy(a1.heap[Len(heap) + 2], ftmp))} :
       \E s2 \in {SumAxis0(Weighted(a2.heap[loc.exp4R], a2.heap[loc.exp4I],
                                     a2.heap[a1.ref], a2.heap[a2.ref]),
                            Len(a2.heap[ell_array]))} :
       \E a3 \in {Augmented(a2.heap, loc.ft_gx2, Added(a2.heap[loc.ft_gx2], s2))} :
       \E s1 \in {SumAxis0(Weighted(a3.heap[loc.exp2R], a3.heap[loc.exp2I],
                                     a3.heap[a1.ref], a3.heap[a2.ref]),
                            Len(a3.heap[ell_array]))} :
       \E a4 \in {Augmented(a3.heap, loc.ft_gx1, Added(a3.heap[loc.ft_gx1], s1))} :
           /\ heap' = a4.heap
           /\ loc' = [loc EXCEPT !.fxR = a1.ref, !.fxI = a2.ref,
                                 !.ft_gx2 = a3.ref, !.ft_gx1 = a4.ref]
           /\ written' = written \cup WrittenBy(Len(heap) + 1) \cup WrittenBy(Len(heap) + 2)
                             \cup WrittenBy(loc.ft_gx2) \cup WrittenBy(loc.ft_gx1)
    /\ samples' = samples \o [j \in 1..loc.N_points |-> j]
    /\ pc' = "left"
    /\ UNCHANGED <<inplace, ell_array, eccentricity, N_it, result, ell_before>>
    /\ UNCHANGED driverVars

\* j = N_it: the left edge
LeftEdge ==
    /\ pc = "left"
    /\ \E h1 \in {Append(heap, LeftFx(heap[ell_array], Finite(heap[loc.center]), loc.sinC,
                                      loc.cosC, loc.radius, loc.ecosRadius,
                                      loc.esinRadius))} :
       \E a1 \in {Augmented(h1, loc.ft_gx2,
                            Added(h1[loc.ft_gx2], EdgeTerm(Half, h1[Len(heap) + 1])))} :
       \E a2 \in {Augmented(a1.heap, loc.ft_gx1,
                            Added(a1.heap[loc.ft_gx1],
                                  LeftGx1Term(a1.heap[Len(heap) + 1])))} :
           /\ heap' = a2.heap
           /\ loc' = [loc EXCEPT !.fxR = Len(heap) + 1, !.ft_gx2 = a1.ref,
                                 !.ft_gx1 = a2.ref]
           /\ written' = written \cup WrittenBy(loc.ft_gx2) \cup WrittenBy(loc.ft_gx1)
    /\ samples' = Append(samples, loc.N_points + 1)
    /\ pc' = "solution"
    /\ UNCHANGED <<inplace, ell_array, eccentricity, N_it, result, ell_before>>
    /\ UNCHANGED driverVars

\* output += radius*ft_gx2/ft_gx1; return output
Return ==
    /\ pc = "solution"
    /\ \E a \in {Augmented(heap, loc.output,
                           OutputOf(heap[loc.output], loc.radius,
                                    heap[loc.ft_gx2], heap[loc.ft_gx1]))} :
           /\ heap' = a.heap
           /\ loc' = [loc EXCEPT !.output = a.ref]
           /\ result' = [kind |-> "return", msg |-> Ok, ref |-> a.ref]
           /\ written' = written \cup WrittenBy(loc.output)
    /\ pc' = "returned"
    /\ UNCHANGED <<inplace, ell_array, eccentricity, N_it, samples, ell_before>>
    /\ UNCHANGED driverVars

Next ==
    \/ Check
    \/ Sampling
    \/ Center
    \/ RightEdge
    \/ Interior
    \/ LeftEdge
    \/ Return

Spec == Init /\ [][Next]_vars

\* the call runs on: python executes the next statement of a function that
\* has not ended (every step moves pc)
SpecRun == Spec /\ WF_pc(Next)

\* the array the call returned
Returned == heap[result.ref]

\* ------------------------------------------------------------------------
\* The partitioned solve: a driver cuts an array into contiguous chunks,
\* calls compute_contour on the whole array and on every chunk with the
\* same eccentricity and N_it, and gathers the outcomes in order
\* ------------------------------------------------------------------------

\* the eccentricities of the partitioned solve
PartEccValues == {0, Half}

\* the ends of the chunks: the cuts and the end of the array (an empty
\* array is one empty chunk)
ChunkEnds(len) == cuts \cup {len}

\* the number of chunks of an array of length len
NChunks(len) == Cardinality(ChunkEnds(len))

\* the end of chunk k
ChunkEnd(len, k) ==
    CHOOSE b \in ChunkEnds(len) : Cardinality({c \in ChunkEnds(len) : c <= b}) = k

\* the index before chunk k
ChunkStart(len, k) == IF k = 1 THEN 0 ELSE ChunkEnd(len, k - 1)

\* chunk k of the array a
Chunk(a, k) == SubSeq(a, ChunkStart(Len(a), k) + 1, ChunkEnd(Len(a), k))

\* what a finished call hands to its caller: the error, or the array
Outcome ==
    IF result.kind = "raise"
    THEN [kind |-> "raise", msg |-> result.msg, out |-> <<>>]
    ELSE [kind |-> "return", msg |-> Ok, out |-> heap[result.ref]]

InitPart ==
    /\ pc = "idle"
    /\ inplace \in BOOLEAN
    /\ full \in Arrays
    /\ cuts \in SUBSET (1..(Len(full) - 1))
    /\ heap = <<full>>
    /\ ell_before = full
    /\ ell_array = 1
    /\ eccentricity \in PartEccValues
    /\ N_it \in NitValues
    /\ loc = LocInit
    /\ written = {}
    /\ samples = <<>>
    /\ result = NoResult
    /\ ppc = "whole"
    /\ whole = NoResult
    /\ parts = <<>>

\* compute_contour(a, eccentricity, N_it) is entered
Enter(a) ==
    /\ pc' = "check"
    /\ heap' = <<a>>
    /\ ell_before' = a
    /\ loc' = LocInit
    /\ written' = {}
    /\ samples' = <<>>
    /\ result' = NoResult
    /\ UNCHANGED <<inplace, ell_array, eccentricity, N_it>>

\* the driver takes the outcome; the call's arrays are dropped
Leave ==
    /\ pc' = "idle"
    /\ heap' = <<full>>
    /\ ell_before' = full
    /\ loc' = LocInit
    /\ written' = {}
    /\ samples' = <<>>
    /\ result' = NoResult
    /\ UNCHANGED <<inplace, ell_array, eccentricity, N_it>>

\* the call on the whole array begins
CallWhole ==
    /\ ppc = "whole"
    /\ pc = "idle"
    /\ Enter(full)
    /\ UNCHANGED driverVars

\* the call on the whole array has ended
CollectWhole ==
    /\ ppc = "whole"
    /\ pc \in {"returned", "raised"}
    /\ whole' = Outcome
    /\ ppc' = "chunks"
    /\ Leave
    /\ UNCHANGED <<full, cuts, parts>>

\* the call on the next chunk begins
CallChunk ==
    /\ ppc = "chunks"
    /\ pc = "idle"
    /\ Len(parts) < NChunks(Len(full))
    /\ Enter(Chunk(full, Len(parts) + 1))
    /\ UNCHANGED driverVars

\* the call on a chunk has ended
CollectChunk ==
    /\ ppc = "chunks"
    /\ pc \in {"returned", "raised"}
    /\ parts' = Append(parts, Outcome)
    /\ Leave
    /\ UNCHANGED <<ppc, full, cuts, whole>>

\* every chunk is solved
Gather ==
    /\ ppc = "chunks"
    /\ pc = "idle"
    /\ Len(parts) = NChunks(Len(full))
    /\ ppc' = "gathered"
    /\ UNCHANGED <<pc, inplace, heap, ell_array, eccentricity, N_it, loc, written,
                   samples, result, ell_before>>
    /\ UNCHANGED <<full, cuts, whole, parts>>

NextPart ==
    \/ CallWhole
    \/ CollectWhole
    \/ CallChunk
    \/ CollectChunk
    \/ Gather
    \/ Check
    \/ Sampling
    \/ Center
    \/ RightEdge
    \/ Interior
    \/ LeftEdge
    \/ Return

SpecPart == InitPart /\ [][NextPart]_vars

\* what the partitioned solve hands to its caller: an error when a chunk
\* raised one, or the results of the chunks concatenated in order
RECURSIVE Concatenated(_, _)
Concatenated(ps, k) == IF k = 0 THEN <<>> ELSE Concatenated(ps, k - 1) \o ps[k].out

PartOutcome ==
    IF \E k \in Idx(parts) : parts[k].kind = "raise"
    THEN [kind |-> "raise", out |-> <<>>]
    ELSE [kind |-> "return", out |-> Concatenated(parts, Len(parts))]

\* ------------------------------------------------------------------------
\* The properties
\* ------------------------------------------------------------------------

InRange(a) == \A i \in Idx(a) : 0 <= a[i] /\ a[i] <= TwoPi

ValidEccentricity == 0 < eccentricity /\ eccentricity < Scale

\* C1 as stated: an eccentricity e <= 0 or e >= 1 makes the call fail
\* whatever the array and N_it are, N_it < 2 makes it fail whatever the array
\* and the eccentricity are, and no call with 0 < e < 1, N_it >= 2 and every
\* element in [0, 2 pi] fails.  The empty array has every element in range
\* and fails.
C1_AsStated ==
    pc # "check" =>
        /\ ~ValidEccentricity => pc = "raised"
        /\ N_it < 2 => pc = "raised"
        /\ (ValidEccentricity /\ N_it >= 2 /\ InRange(ell_before)) => pc # "raised"

\* C1: an eccentricity e <= 0 or e >= 1 makes the call fail with the
\* eccentricity error whatever the array and N_it are; N_it < 2 makes the
\* call fail whatever the array and the eccentricity are; no call with
\* 0 < e < 1, N_it >= 2 and a non-empty array with every element in
\* [0, 2 pi] fails; the empty array fails in the reduction of the range check.
C1_Validation ==
    pc # "check" =>
        /\ eccentricity <= 0 => pc = "raised" /\ result.msg = EccLowMsg
        /\ eccentricity >= Scale => pc = "raised" /\ result.msg = EccHighMsg
        /\ N_it < 2 => pc = "raised" /\ result.kind = "raise"
        /\ (ValidEccentricity /\ N_it >= 2 /\ InRange(ell_before) /\ Len(ell_before) > 0)
               => pc # "raised"
        /\ (ValidEccentricity /\ Len(ell_before) = 0)
               => pc = "raised" /\ result.msg = ZeroSizeMsg

\* the eccentricity 1 has failed a call whose array and N_it are valid
C1_Witness ==
    /\ pc = "raised"
    /\ eccentricity = Scale
    /\ result.msg = EccHighMsg
    /\ Len(ell_before) = 2
    /\ InRange(ell_before)
    /\ N_it >= 2

\* C2: an array, of any length, with an element > 2 pi or < 0 at any index
\* makes the call fail: with the range error when the eccentricity is valid
\* (the eccentricity is checked first), a single such element among valid
\* ones being enough.
C2_WholeArrayRange ==
    (pc # "check" /\ ~InRange(ell_before)) =>
        /\ pc = "raised"
        /\ result.kind = "raise"
        /\ ValidEccentricity => result.msg = RangeMsg

\* the last element alone is out of range and the call has failed
C2_Witness ==
    /\ pc = "raised"
    /\ result.msg = RangeMsg
    /\ Len(ell_before) = 2
    /\ InRange(<<ell_before[1]>>)
    /\ ell_before[2] > TwoPi

\* where a call stands with respect to its two endings
C3_State ==
    /\ pc = "raised" =>
           /\ result.kind = "raise"
           /\ CheckInputs(ell_before, eccentricity, N_it) # Ok
           /\ result.msg = CheckInputs(ell_before, eccentricity, N_it)
           /\ heap = <<ell_before>>
           /\ loc = LocInit
           /\ samples = <<>>
    /\ pc \notin {"check", "raised"} =>
           CheckInputs(ell_before, eccentricity, N_it) = Ok
    /\ pc = "returned" =>
           /\ result.kind = "return"
           /\ Len(Returned) = Len(ell_before)
           /\ Idx(Returned) = Idx(ell_before)
    /\ pc \notin {"raised", "returned"} => result.kind = "none"

\* C3: a call ends, in one of two ways.  It fails a check, and then no
\* array but the caller's exists, no local is set and no sample is added;
\* or it passes every check, and then it goes on to the end without an
\* error and returns an array of the length of the input, a zero
\* denominator leaving a non-finite element in it.
C3_Dichotomy ==
    /\ []C3_State
    /\ [][pc # "check" => pc' # "raised"]_pc
    /\ <>(pc \in {"raised", "returned"})

\* a call has returned an array with a non-finite element in it
C3_Witness ==
    /\ pc = "returned"
    /\ Len(ell_before) = 2
    /\ \E i \in Idx(Returned) : ~IsFin(Returned[i])
    /\ \E i \in Idx(Returned) : IsFin(Returned[i])

\* C4 as stated: an array with the element 0 or 2 pi is accepted, and the
\* value returned for that element is finite (the edge sample gives no
\* zero denominator).
C4_AsStated ==
    pc = "returned" =>
        \A i \in Idx(ell_before) : ell_before[i] \in {0, TwoPi} => IsFin(Returned[i])

\* the arrays <<0>> and <<2 pi>> are accepted
C4_Accepted ==
    /\ pc = "returned"
    /\ Len(ell_before) = 1
    /\ ell_before[1] \in {0, TwoPi}

\* C5: with the array cut into contiguous chunks in any way, the calls on
\* the chunks (same eccentricity and N_it) give what the call on the whole
\* array gives: they all return and their results concatenated are the
\* result of the whole call element for element, or one of them fails as
\* the whole call fails (the check that fails first may be another one).
C5_PartitionInvariance ==
    ppc = "gathered" =>
        /\ Len(parts) = Cardinality(cuts) + 1
        /\ PartOutcome.kind = whole.kind
        /\ PartOutcome.out = whole.out
        /\ whole.kind = "return" =>
               /\ \A k \in Idx(parts) : parts[k].kind = "return"
               /\ Len(whole.out) = Len(full)

\* an array with an element on each side of pi, cut between them, is solved
C5_Witness ==
    /\ ppc = "gathered"
    /\ whole.kind = "return"
    /\ Len(parts) = 2
    /\ full[1] < Pi
    /\ full[2] >= Pi
    /\ N_it > 2

\* the call has made its sample arrays
Sampled == pc \in {"center", "right", "interior", "left", "solution", "returned"}

\* the call has made its two accumulators
Accumulating == pc \in {"interior", "left", "solution", "returned"}

\* C7: at every point of a call, returning or failing, the caller's array
\* holds what it held when the call began; an augmented assignment writes
\* only into arrays made inside the call, never into a sample array, which
\* holds what it was constructed with; the accumulators ft_gx1 and ft_gx2
\* are two arrays; the array returned is not the caller's.
C7_NoMutation ==
    /\ heap[ell_array] = ell_before
    /\ ell_array \notin written
    /\ \A id \in written : id > ell_array /\ id <= Len(heap)
    /\ written \cap SampleIds = {}
    /\ Sampled =>
           /\ Cardinality(SampleIds) = 8
           /\ ell_array \notin SampleIds
           /\ SamplesHeld = SamplesOf(eccentricity, N_it)
    /\ Accumulating =>
           /\ loc.ft_gx1 # loc.ft_gx2
           /\ {loc.ft_gx1, loc.ft_gx2} \cap (SampleIds \cup {ell_array}) = {}
    /\ pc = "returned" => result.ref # ell_array /\ result.ref \notin SampleIds

\* a call on numpy arrays, with interior samples, has written in place
\* and returned
C7_Witness ==
    /\ pc = "returned"
    /\ inplace
    /\ Cardinality(written) >= 3
    /\ N_it > 2
    /\ Len(ell_before) = 2

\* the accumulators after the right edge alone
C8_RightEdgeOnly ==
    EdgeTerm(Half, RightFx(ell_before, Finite(heap[loc.center]), loc.sinC, loc.cosC,
                           loc.radius, loc.ecosRadius, loc.esinRadius))

\* C8: for N_it >= 2 there are N_points = N_it - 2 interior samples and
\* N_fft = 2 (N_it - 1), the interior sample j = 1..N_points at the angle
\* 2 pi j / N_fft; 0 < 2 j < N_fft, so the angles lie strictly between 0 and
\* pi and increase strictly; each accumulator gets N_it contributions, the
\* samples 0..N_it-1 once each; with N_it = 2 the interior adds nothing to
\* what the right edge gave.
C8_SamplePoints ==
    /\ Sampled =>
           /\ N_it >= 2
           /\ loc.N_points = N_it - 2
           /\ loc.N_fft = 2 * (N_it - 1)
           /\ Len(loc.freq) = loc.N_points
           /\ \A id \in SampleIds : Len(heap[id]) = loc.N_points
           /\ \A j \in 1..loc.N_points :
                  /\ loc.freq[j] = RDiv(TwoPi * j, loc.N_fft)
                  /\ 0 < 2 * j /\ 2 * j < loc.N_fft
                  /\ 0 < loc.freq[j] /\ loc.freq[j] < Pi
                  /\ \A k \in 1..(j - 1) : loc.freq[k] < loc.freq[j]
    /\ pc = "right" => samples = <<>>
    /\ pc = "interior" => samples = <<0>>
    /\ pc = "left" => samples = [j \in 1..(N_it - 1) |-> j - 1]
    /\ pc \in {"solution", "returned"} => samples = [j \in 1..N_it |-> j - 1]
    /\ (pc = "left" /\ N_it = 2) =>
           /\ heap[loc.ft_gx2] = C8_RightEdgeOnly
           /\ heap[loc.ft_gx1] = C8_RightEdgeOnly

\* a call with two interior samples has returned
C8_Witness ==
    /\ pc = "returned"
    /\ N_it = 4
    /\ loc.N_points = 2
    /\ Len(samples) = 4
    /\ Len(ell_before) > 0

\* C9: for every element l of the array, the center is l + e/2 when
\* l < pi and l - e/2 otherwise (l = pi included), whatever the other
\* elements are; the real diameter of the contour is [l, l + e] when l < pi
\* and [l - e, l] otherwise, and lies in [0, 2 pi].
C9_Center ==
    pc \in {"right", "interior", "left", "solution"} =>
        /\ Len(heap[loc.center]) = Len(ell_before)
        /\ 2 * loc.radius = eccentricity
        /\ \A i \in Idx(ell_before) :
               LET l == ell_before[i]
                   c == heap[loc.center][i]
                   r == loc.radius
               IN  /\ IsFin(c)
                   /\ l < Pi => c[2] = l + r /\ c[2] - r = l /\ c[2] + r = l + eccentricity
                   /\ l >= Pi => c[2] = l - r /\ c[2] - r = l - eccentricity /\ c[2] + r = l
                   /\ 0 <= c[2] - r
                   /\ c[2] + r <= TwoPi

\* the centers of an element below pi and of the element pi are chosen
C9_Witness ==
    /\ pc = "right"
    /\ Len(ell_before) = 2
    /\ ell_before[1] < Pi
    /\ ell_before[2] = Pi
    /\ heap[loc.center][1] = Fin(ell_before[1] + loc.radius)
    /\ heap[loc.center][2] = Fin(Pi - loc.radius)

\* the center chosen for the mean anomaly l
C10_Center(l) ==
    IF l < Pi THEN l + RadiusOf(eccentricity) ELSE l - RadiusOf(eccentricity)

\* f at the right edge (w = 1) and at the left edge (w = -1)
C10_EdgeF(l, w) ==
    LET c == C10_Center(l)
    IN  (c + w * RadiusOf(eccentricity))
        - (Mul(Sin(c), EcosRadiusOf(eccentricity))
           + w * Mul(Cos(c), EsinRadiusOf(eccentricity)))
        - l

\* the real part of f at the interior sample j
C10_FxR(l, j) ==
    LET c == C10_Center(l)
        s == SamplesOf(eccentricity, N_it)
    IN  (c + Mul(RadiusOf(eccentricity), s.exp2R[j]))
        - Mul(Mul(Sin(c), s.ecosR[j]) + Mul(Cos(c), s.esinR[j]), s.coshI[j])
        - l

\* the imaginary part of f at the interior sample j
C10_FxI(l, j) ==
    LET c == C10_Center(l)
        s == SamplesOf(eccentricity, N_it)
    IN  Mul(RadiusOf(eccentricity), s.exp2I[j])
        - Mul(Mul(Cos(c), s.ecosR[j]) - Mul(Sin(c), s.esinR[j]), s.sinhI[j])

\* the real part of (wR + i wI) / f at the interior sample j
C10_Term(l, j, wR, wI) ==
    LET fxR == C10_FxR(l, j)
        fxI == C10_FxI(l, j)
        ftmp == Mul(fxR, fxR) + Mul(fxI, fxI)
    IN  XAdd(XMul(Fin(wR), XDiv(Fin(fxR), Fin(ftmp))),
             XMul(Fin(wI), XDiv(Fin(fxI), Fin(ftmp))))

RECURSIVE C10_Gx2Interior(_, _)
\* the interior samples 1..k in gx2
C10_Gx2Interior(l, k) ==
    IF k = 0 THEN Fin(0)
    ELSE LET s == SamplesOf(eccentricity, N_it)
         IN  XAdd(C10_Gx2Interior(l, k - 1), C10_Term(l, k, s.exp4R[k], s.exp4I[k]))

RECURSIVE C10_Gx1Interior(_, _)
\* the interior samples 1..k in gx1
C10_Gx1Interior(l, k) ==
    IF k = 0 THEN Fin(0)
    ELSE LET s == SamplesOf(eccentricity, N_it)
         IN  XAdd(C10_Gx1Interior(l, k - 1), C10_Term(l, k, s.exp2R[k], s.exp2I[k]))

\* gx2 with every sample in it once
C10_Gx2(l) ==
    XAdd(XAdd(XDiv(Fin(Half), Fin(C10_EdgeF(l, 1))), C10_Gx2Interior(l, N_it - 2)),
         XDiv(Fin(Half), Fin(C10_EdgeF(l, -1))))

\* gx1 with every sample in it once
C10_Gx1(l) ==
    XAdd(XAdd(XDiv(Fin(Half), Fin(C10_EdgeF(l, 1))), C10_Gx1Interior(l, N_it - 2)),
         XDiv(Fin(-Half), Fin(C10_EdgeF(l, -1))))

\* C10: the value returned for the element l is center + r gx2 / gx1 with
\* the center chosen for l, where the right edge gave +0.5/fR to gx2 and to
\* gx1, the left edge +0.5/fL to gx2 and -0.5/fL to gx1, and the interior
\* sample j the real part of its weight over f (weight exp4 for gx2, exp2
\* for gx1), each sample once; before the final addition the accumulators
\* and the centers hold exactly these values.
C10_Formula ==
    /\ pc = "solution" =>
           \A i \in Idx(ell_before) :
               /\ heap[loc.output][i] = Fin(C10_Center(ell_before[i]))
               /\ heap[loc.ft_gx2][i] = C10_Gx2(ell_before[i])
               /\ heap[loc.ft_gx1][i] = C10_Gx1(ell_before[i])
    /\ pc = "returned" =>
           \A i \in Idx(ell_before) :
               Returned[i] = XAdd(Fin(C10_Center(ell_before[i])),
                                  XDiv(XMul(Fin(RadiusOf(eccentricity)),
                                            C10_Gx2(ell_before[i])),
                                       C10_Gx1(ell_before[i])))

\* a call with an interior sample has returned two finite values
C10_Witness ==
    /\ pc = "returned"
    /\ N_it >= 3
    /\ Len(ell_before) = 2
    /\ \A i \in Idx(Returned) : IsFin(Returned[i])
    /\ Returned[1] # Returned[2]

====
